---- MODULE Spec2Model ----
(***************************************************************************)
(* The automation-config Builder of pkg/automationconfig: the setter       *)
(* chain, Build, and the version bump decided by comparing the JSON of the *)
(* previous and of the freshly assembled AutomationConfig.                 *)
(***************************************************************************)
EXTENDS Integers, Sequences, FiniteSets, TLC

VARIABLES
    b,      \* the Builder (automation_config_builder.go:19-37)
    out,    \* what the most recent Build call did: returned, failed or panicked
    stage,  \* where the caller is: "set", "built", "fed", "chained", "rebuilt"
    n,      \* number of setter calls made so far
    calls   \* the setter chain, as indices into OrderCalls (ordering specification)

vars == <<b, out, stage, n, calls>>

(***************************************************************************)
(* Bounds of the model.                                                    *)
(***************************************************************************)
MaxMembers == 2
MaxCalls == 4
MaxChain == 3
MaxVersions == 2

(***************************************************************************)
(* Go's int.  The model takes the 32-bit int of GOARCH=386/arm; the 64-bit *)
(* int wraps in the same way, at 2^63 - 1.                                 *)
(***************************************************************************)
MaxInt == 2147483647
MinInt == -MaxInt - 1

\* x + 1 on a Go int: signed overflow wraps around
IntInc(x) == IF x = MaxInt THEN MinInt ELSE x + 1

(***************************************************************************)
(* Go slices: a nil slice and an empty non-nil slice are different values. *)
(***************************************************************************)
NilSlice == [nil |-> TRUE, elems |-> <<>>]
Slice(s) == [nil |-> FALSE, elems |-> s]

\* append(s, x): the result is never nil
GoAppend(s, x) == Slice(Append(s.elems, x))

\* fmt's %d of a non-negative int
Digits == <<"0", "1", "2", "3", "4", "5", "6", "7", "8", "9">>

RECURSIVE Itoa(_)
Itoa(i) == IF i < 10 THEN Digits[i + 1] ELSE Itoa(i \div 10) \o Digits[(i % 10) + 1]

(***************************************************************************)
(* The document types of the package: Process, ReplicaSetMember, Auth,     *)
(* SSL, MongoDbVersionConfig and AutomationConfig, with their constructors.*)
(***************************************************************************)
SSLModeDisabled == "disabled"
ClientCertificateModeOptional == "OPTIONAL"

ZeroMongoDBSSL ==
    [Mode |-> "", CAFile |-> "", PEMKeyFile |-> "",
     AllowConnectionsWithoutCertificate |-> FALSE]

ZeroAuth == [Disabled |-> FALSE, AutoAuthMechanism |-> "", AutoAuthMechanisms |-> NilSlice]

DisabledAuth ==
    [Disabled |-> TRUE, AutoAuthMechanism |-> "MONGODB-CR",
     AutoAuthMechanisms |-> Slice(<<>>)]

\* AutomationConfig{}: the zero value
EmptyAC ==
    [Version |-> 0, Processes |-> NilSlice, ReplicaSets |-> NilSlice,
     Versions |-> NilSlice, Options |-> [DownloadBase |-> ""],
     Auth |-> ZeroAuth,
     SSL |-> [CAFilePath |-> "", ClientCertificateMode |-> ""]]

\* the functional options handed to newProcess
withFCV(fcv) == [opt |-> "fcv", fcv |-> fcv, ssl |-> ZeroMongoDBSSL]

withTLS(caFile, tlsKeyFile, mode) ==
    [opt |-> "tls", fcv |-> "",
     ssl |-> [Mode |-> mode, CAFile |-> caFile, PEMKeyFile |-> tlsKeyFile,
              AllowConnectionsWithoutCertificate |-> TRUE]]

ApplyOpt(p, o) ==
    IF o.opt = "fcv"
    THEN [p EXCEPT !.FeatureCompatibilityVersion = o.fcv]
    ELSE [p EXCEPT !.Args26.Net.SSL = o.ssl]

RECURSIVE ApplyOpts(_, _)
ApplyOpts(p, opts) ==
    IF opts = <<>> THEN p ELSE ApplyOpts(ApplyOpt(p, Head(opts)), Tail(opts))

newProcess(name, hostName, version, replSetName, opts) ==
    ApplyOpts([Name |-> name, HostName |-> hostName, Version |-> version,
               FeatureCompatibilityVersion |-> "",
               Args26 |-> [Net |-> [SSL |-> ZeroMongoDBSSL],
                           Replication |-> [ReplSetName |-> replSetName]]],
              opts)

newReplicaSetMember(process, id) == [Id |-> id, Host |-> process.Name]

(***************************************************************************)
(* json.Marshal of a document, as the JSON value it writes: the bytes are  *)
(* equal exactly when these values are.  A nil slice is written as null,   *)
(* an empty one as [], and an omitempty field that is empty is left out.   *)
(***************************************************************************)
JNull == [t |-> "null"]
JNum(x) == [t |-> "num", num |-> x]
JStr(s) == [t |-> "str", str |-> s]
JBool(x) == [t |-> "bool", bool |-> x]
JArr(s) == [t |-> "arr", arr |-> s]
JObj(fields) == [t |-> "obj", obj |-> fields]
JField(k, v) == <<[k |-> k, v |-> v]>>
JOmitEmpty(k, empty, v) == IF empty THEN <<>> ELSE JField(k, v)

\* a slice whose elements are written as js
MarshalSlice(s, js) == IF s.nil THEN JNull ELSE JArr(js)

MarshalStrings(s) == MarshalSlice(s, [i \in DOMAIN s.elems |-> JStr(s.elems[i])])

MarshalMongoDBSSL(s) ==
    JObj(JField("mode", JStr(s.Mode))
         \o JField("PEMKeyFile", JStr(s.PEMKeyFile))
         \o JField("CAFile", JStr(s.CAFile))
         \o JField("allowConnectionsWithoutCertificates",
                   JBool(s.AllowConnectionsWithoutCertificate)))

MarshalProcess(p) ==
    JObj(JField("name", JStr(p.Name))
         \o JField("hostname", JStr(p.HostName))
         \o JField("args2_6",
                   JObj(JField("net", JObj(JField("ssl", MarshalMongoDBSSL(p.Args26.Net.SSL))))
                        \o JField("replication",
                                  JObj(JField("replSetName",
                                              JStr(p.Args26.Replication.ReplSetName))))))
         \o JField("version", JStr(p.Version))
         \o JField("featureCompatibilityVersion", JStr(p.FeatureCompatibilityVersion)))

MarshalMember(m) == JObj(JField("_id", JNum(m.Id)) \o JField("host", JStr(m.Host)))

MarshalReplicaSet(rs) ==
    JObj(JField("_id", JStr(rs.Id))
         \o JField("members", MarshalSlice(rs.Members,
                                [i \in DOMAIN rs.Members.elems |->
                                    MarshalMember(rs.Members.elems[i])]))
         \o JField("protocolVersion", JStr(rs.ProtocolVersion)))

MarshalBuild(bc) ==
    JObj(JField("platform", JStr(bc.Platform))
         \o JField("modules", MarshalStrings(bc.Modules)))

MarshalVersion(v) ==
    JObj(JField("name", JStr(v.Name))
         \o JField("builds", MarshalSlice(v.Builds,
                                [i \in DOMAIN v.Builds.elems |->
                                    MarshalBuild(v.Builds.elems[i])])))

MarshalAuth(a) ==
    JObj(JField("disabled", JBool(a.Disabled))
         \o JOmitEmpty("autoAuthMechanisms", a.AutoAuthMechanisms.elems = <<>>,
                       MarshalStrings(a.AutoAuthMechanisms))
         \o JField("autoAuthMechanism", JStr(a.AutoAuthMechanism)))

MarshalSSL(s) ==
    JObj(JOmitEmpty("CAFilePath", s.CAFilePath = "", JStr(s.CAFilePath))
         \o JField("clientCertificateMode", JStr(s.ClientCertificateMode)))

Marshal(ac) ==
    JObj(JField("version", JNum(ac.Version))
         \o JField("processes", MarshalSlice(ac.Processes,
                                [i \in DOMAIN ac.Processes.elems |->
                                    MarshalProcess(ac.Processes.elems[i])]))
         \o JField("replicaSets", MarshalSlice(ac.ReplicaSets,
                                [i \in DOMAIN ac.ReplicaSets.elems |->
                                    MarshalReplicaSet(ac.ReplicaSets.elems[i])]))
         \o JField("auth", MarshalAuth(ac.Auth))
         \o JField("ssl", MarshalSSL(ac.SSL))
         \o JField("mongoDbVersions", MarshalSlice(ac.Versions,
                                [i \in DOMAIN ac.Versions.elems |->
                                    MarshalVersion(ac.Versions.elems[i])]))
         \o JField("options", JObj(JField("downloadBase", JStr(ac.Options.DownloadBase)))))

(***************************************************************************)
(* The Enabler interface.  An Enabler is supplied by the caller; the model *)
(* knows a few: one that hands the baseline back, one that always fails,   *)
(* and one whose answer depends on state outside the builder.  Enable is   *)
(* the set of (Auth, error) pairs a call may return; "" is the nil error.  *)
(***************************************************************************)
NilEnabler == "nil"
Enablers == {"noop", "failing", "flaky"}

ScramAuth ==
    [Disabled |-> FALSE, AutoAuthMechanism |-> "SCRAM-SHA-256",
     AutoAuthMechanisms |-> Slice(<<"SCRAM-SHA-256">>)]

Enable(enabler, auth) ==
    CASE enabler = "noop" -> {[auth |-> auth, err |-> ""]}
      [] enabler = "failing" -> {[auth |-> ZeroAuth, err |-> "enable failed"]}
      [] enabler = "flaky" -> {[auth |-> ScramAuth, err |-> ""],
                               [auth |-> ZeroAuth, err |-> "policy unavailable"]}

Deterministic(enabler) ==
    enabler = NilEnabler \/ Cardinality(Enable(enabler, DisabledAuth)) = 1

(***************************************************************************)
(* The Builder and its setters.                                            *)
(***************************************************************************)
NewBuilder ==
    [enabler |-> NilEnabler,
     processes |-> Slice(<<>>), replicaSets |-> Slice(<<>>),
     version |-> 0, auth |-> ZeroAuth,
     members |-> 0, domain |-> "", name |-> "", fcv |-> "", topology |-> "",
     mongodbVersion |-> "", previousAC |-> EmptyAC,
     tlsCAFile |-> "", tlsCertAndKeyFile |-> "", tlsMode |-> "",
     versions |-> Slice(<<>>)]

SetEnabler(bd, enabler) == [bd EXCEPT !.enabler = enabler]

SetTopology(bd, topology) == [bd EXCEPT !.topology = topology]

SetMembers(bd, members) == [bd EXCEPT !.members = members]

SetDomainIntoName(bd, domain) == [bd EXCEPT !.name = domain]

SetDomain(bd, domain) == [bd EXCEPT !.domain = domain]

SetName(bd, name) == [bd EXCEPT !.name = name]

SetFCV(bd, fcv) == [bd EXCEPT !.fcv = fcv]

SetTLS(bd, caFile, certAndKeyFile, mode) ==
    [bd EXCEPT !.tlsCAFile = caFile, !.tlsCertAndKeyFile = certAndKeyFile,
               !.tlsMode = mode]

isTLSEnabledAnyMode(bd) == bd.tlsCAFile # "" /\ bd.tlsCertAndKeyFile # ""

isTLSEnabled(bd) ==
    bd.tlsCAFile # "" /\ bd.tlsCertAndKeyFile # "" /\ bd.tlsMode # SSLModeDisabled

\* the loop of AddVersion: a nil module list becomes make([]string, 0)
NormalizeModules(version) ==
    [version EXCEPT !.Builds.elems =
        [idx \in DOMAIN version.Builds.elems |->
            IF version.Builds.elems[idx].Modules.nil
            THEN [version.Builds.elems[idx] EXCEPT !.Modules = Slice(<<>>)]
            ELSE version.Builds.elems[idx]]]

AddVersionAsGiven(bd, version) ==
    [bd EXCEPT !.versions = GoAppend(bd.versions, version)]

AddVersion(bd, version) ==
    [bd EXCEPT !.versions = GoAppend(bd.versions, NormalizeModules(version))]

SetMongoDBVersion(bd, version) == [bd EXCEPT !.mongodbVersion = version]

SetPreviousAutomationConfig(bd, previousAC) == [bd EXCEPT !.previousAC = previousAC]

(***************************************************************************)
(* Build.                                                                  *)
(***************************************************************************)
NotCalled == [called |-> FALSE, auth |-> ZeroAuth, err |-> ""]
Called(r) == [called |-> TRUE, auth |-> r.auth, err |-> r.err]

NoOutcome == [kind |-> "none", doc |-> EmptyAC, err |-> "", enable |-> NotCalled]

\* a run-time panic: Build does not return
Panic(msg, enable) == [kind |-> "panic", doc |-> EmptyAC, err |-> msg, enable |-> enable]

Returned(ac, enable) == [kind |-> "ok", doc |-> ac, err |-> "", enable |-> enable]

toHostNameDotted(name, index) == name \o "." \o Itoa(index)

toHostName(name, index) == name \o "-" \o Itoa(index)

\* lines 108-111: hostnames[i] = fmt.Sprintf("%s-%d.%s", b.name, i, b.domain)
Hostnames(bd) ==
    [i \in 1..bd.members |-> bd.name \o "-" \o Itoa(i - 1) \o "." \o bd.domain]

\* lines 116-123: the options of every process
ProcessOpts(bd) ==
    <<withFCV(bd.fcv)>>
    \o (IF isTLSEnabled(bd)
        THEN <<withTLS(bd.tlsCAFile, bd.tlsCertAndKeyFile, bd.tlsMode)>>
        ELSE <<>>)

\* lines 114-126: processes[i]
Processes(bd) ==
    [i \in 1..bd.members |->
        newProcess(toHostName(bd.name, i - 1), Hostnames(bd)[i], bd.mongodbVersion,
                   bd.name, ProcessOpts(bd))]

MembersOneBased(bd, processes) ==
    [i \in DOMAIN processes |-> newReplicaSetMember(processes[i], i)]

\* lines 113-128: members[i] = newReplicaSetMember(process, i), i counted from 0
Members(bd, processes) ==
    [i \in DOMAIN processes |-> newReplicaSetMember(processes[i], i - 1)]

\* lines 135-157: the document before the version is decided
CurrentAc(bd, auth) ==
    [Version |-> bd.previousAC.Version,
     Processes |-> Slice(Processes(bd)),
     ReplicaSets |-> Slice(<<[Id |-> bd.name,
                              Members |-> Slice(Members(bd, Processes(bd))),
                              ProtocolVersion |-> "1"]>>),
     Versions |-> bd.versions,
     Options |-> [DownloadBase |-> "/var/lib/mongodb-mms-automation"],
     Auth |-> auth,
     SSL |-> [CAFilePath |-> IF isTLSEnabled(bd) THEN bd.tlsCAFile ELSE "",
              ClientCertificateMode |-> ClientCertificateModeOptional]]

ChangedDeepEqual(previousAC, currentAc) == previousAC # currentAc

ChangedAlways(previousAC, currentAc) == TRUE

\* lines 164-174: bytes.Compare of the two serializations
Changed(previousAC, currentAc) == Marshal(previousAC) # Marshal(currentAc)

\* lines 174-177
Versioned(bd, currentAc) ==
    IF Changed(bd.previousAC, currentAc)
    THEN [currentAc EXCEPT !.Version = IntInc(currentAc.Version)]
    ELSE currentAc

EnableFailedPartial(bd, r) ==
    [kind |-> "err", doc |-> CurrentAc(bd, r.auth), err |-> r.err, enable |-> Called(r)]

\* lines 131-133: return AutomationConfig{}, err
EnableFailed(bd, r) ==
    [kind |-> "err", doc |-> EmptyAC, err |-> r.err, enable |-> Called(r)]

\* every way one Build call on bd can end
BuildOutcomes(bd) ==
    IF bd.members < 0
    THEN {Panic("makeslice: len out of range", NotCalled)}
    ELSE IF bd.enabler = NilEnabler
    THEN {Panic("invalid memory address or nil pointer dereference", NotCalled)}
    ELSE {IF r.err # ""
          THEN EnableFailed(bd, r)
          ELSE Returned(Versioned(bd, CurrentAc(bd, r.auth)), Called(r))
          : r \in Enable(bd.enabler, DisabledAuth)}

BuilderAfterBuildCaching(bd, o) ==
    IF o.kind = "ok" THEN [bd EXCEPT !.previousAC = o.doc] ELSE bd

\* Build has a pointer receiver and assigns to no field of it
BuilderAfterBuild(bd, o) == bd

(***************************************************************************)
(* The values the caller passes to the setters.                            *)
(***************************************************************************)
ReplicaSetTopology == "ReplicaSet"
MemberCounts == -1..MaxMembers
Domains == {"example.com"}
Names == {"foo"}
FCVs == {"4.2"}
CAFiles == {"", "/ca.pem"}
KeyFiles == {"", "/server.pem"}
SSLModes == {"", SSLModeDisabled, "requireSSL"}
MongoDBVersions == {"4.2.6"}

\* catalog entries as the caller holds them: module lists may be nil
CommunityVersion ==
    [Name |-> "4.2.6",
     Builds |-> Slice(<<[Platform |-> "linux", Modules |-> NilSlice]>>)]

EnterpriseVersion ==
    [Name |-> "4.2.6-ent",
     Builds |-> Slice(<<[Platform |-> "linux", Modules |-> Slice(<<"enterprise">>)],
                        [Platform |-> "osx", Modules |-> NilSlice]>>)]

VersionConfigs == {CommunityVersion, EnterpriseVersion}

\* a document read back from its JSON: what was left out comes back nil
Reloaded(ac) ==
    IF ac.Auth.AutoAuthMechanisms.elems = <<>>
    THEN [ac EXCEPT !.Auth.AutoAuthMechanisms = NilSlice]
    ELSE ac

PrevVersions == {5, MaxInt}

\* the documents the caller may hand in as the previous one
PrevDocs ==
    {[EmptyAC EXCEPT !.Version = MaxInt]}
    \cup (IF out.kind = "ok"
          THEN {out.doc, Reloaded(out.doc)}
               \cup {[out.doc EXCEPT !.Version = v] : v \in PrevVersions}
          ELSE {})

Fresh == stage \in {"built", "chained", "rebuilt"}

(***************************************************************************)
(* The state after NewBuilder(), and one action per exported method.       *)
(***************************************************************************)
Init ==
    /\ b = NewBuilder
    /\ out = NoOutcome
    /\ stage = "set"
    /\ n = 0
    /\ calls = <<>>

SetEnablerCall ==
    /\ n < MaxCalls
    /\ \E enabler \in Enablers : b' = SetEnabler(b, enabler)
    /\ n' = n + 1
    /\ stage' = "set"
    /\ UNCHANGED <<out, calls>>

SetTopologyCall ==
    /\ n < MaxCalls
    /\ b' = SetTopology(b, ReplicaSetTopology)
    /\ n' = n + 1
    /\ stage' = "set"
    /\ UNCHANGED <<out, calls>>

SetMembersCall ==
    /\ n < MaxCalls
    /\ \E members \in MemberCounts : b' = SetMembers(b, members)
    /\ n' = n + 1
    /\ stage' = "set"
    /\ UNCHANGED <<out, calls>>

SetDomainCall ==
    /\ n < MaxCalls
    /\ \E domain \in Domains : b' = SetDomain(b, domain)
    /\ n' = n + 1
    /\ stage' = "set"
    /\ UNCHANGED <<out, calls>>

SetNameCall ==
    /\ n < MaxCalls
    /\ \E name \in Names : b' = SetName(b, name)
    /\ n' = n + 1
    /\ stage' = "set"
    /\ UNCHANGED <<out, calls>>

SetFCVCall ==
    /\ n < MaxCalls
    /\ \E fcv \in FCVs : b' = SetFCV(b, fcv)
    /\ n' = n + 1
    /\ stage' = "set"
    /\ UNCHANGED <<out, calls>>

SetTLSCall ==
    /\ n < MaxCalls
    /\ \E caFile \in CAFiles, certAndKeyFile \in KeyFiles, mode \in SSLModes :
           b' = SetTLS(b, caFile, certAndKeyFile, mode)
    /\ n' = n + 1
    /\ stage' = "set"
    /\ UNCHANGED <<out, calls>>

AddVersionCall ==
    /\ n < MaxCalls
    /\ Len(b.versions.elems) < MaxVersions
    /\ \E version \in VersionConfigs : b' = AddVersion(b, version)
    /\ n' = n + 1
    /\ stage' = "set"
    /\ UNCHANGED <<out, calls>>

SetMongoDBVersionCall ==
    /\ n < MaxCalls
    /\ \E version \in MongoDBVersions : b' = SetMongoDBVersion(b, version)
    /\ n' = n + 1
    /\ stage' = "set"
    /\ UNCHANGED <<out, calls>>

\* handing the document Build has just returned back in is the feedback step
SetPreviousAutomationConfigCall ==
    \E d \in PrevDocs :
        /\ n < MaxCalls
        /\ b' = SetPreviousAutomationConfig(b, d)
        /\ n' = n + 1
        /\ stage' = IF Fresh /\ out.kind = "ok" /\ d = out.doc THEN "fed" ELSE "set"
        /\ UNCHANGED <<out, calls>>

BuildCall ==
    \E o \in BuildOutcomes(b) :
        /\ out' = o
        /\ b' = BuilderAfterBuild(b, o)
        /\ stage' = CASE stage = "set" -> "built"
                      [] stage = "fed" -> "chained"
                      [] OTHER -> "rebuilt"
        /\ UNCHANGED <<n, calls>>

Next ==
    \/ SetEnablerCall
    \/ SetTopologyCall
    \/ SetMembersCall
    \/ SetDomainCall
    \/ SetNameCall
    \/ SetFCVCall
    \/ SetTLSCall
    \/ AddVersionCall
    \/ SetMongoDBVersionCall
    \/ SetPreviousAutomationConfigCall
    \/ BuildCall

Spec == Init /\ [][Next]_vars

(***************************************************************************)
(* The ordering specification: a fresh builder, a recorded chain of setter *)
(* calls drawn from OrderCalls, and Build.                                 *)
(***************************************************************************)
OrderCalls ==
    <<[op |-> "SetEnabler", arg |-> "noop"],
      [op |-> "SetEnabler", arg |-> "failing"],
      [op |-> "SetTopology", arg |-> ReplicaSetTopology],
      [op |-> "SetMembers", arg |-> 1],
      [op |-> "SetDomain", arg |-> "example.com"],
      [op |-> "SetName", arg |-> "foo"],
      [op |-> "SetFCV", arg |-> "4.2"],
      [op |-> "SetTLS", arg |-> [ca |-> "/ca.pem", key |-> "/server.pem", mode |-> "requireSSL"]],
      [op |-> "SetMongoDBVersion", arg |-> "4.2.6"],
      [op |-> "AddVersion", arg |-> CommunityVersion],
      [op |-> "AddVersion", arg |-> EnterpriseVersion],
      [op |-> "SetPreviousAutomationConfig", arg |-> [EmptyAC EXCEPT !.Version = 5]]>>

\* the builder after the setter call c
Apply(bd, c) ==
    CASE c.op = "SetEnabler" -> SetEnabler(bd, c.arg)
      [] c.op = "SetTopology" -> SetTopology(bd, c.arg)
      [] c.op = "SetMembers" -> SetMembers(bd, c.arg)
      [] c.op = "SetDomain" -> SetDomain(bd, c.arg)
      [] c.op = "SetName" -> SetName(bd, c.arg)
      [] c.op = "SetFCV" -> SetFCV(bd, c.arg)
      [] c.op = "SetTLS" -> SetTLS(bd, c.arg.ca, c.arg.key, c.arg.mode)
      [] c.op = "SetMongoDBVersion" -> SetMongoDBVersion(bd, c.arg)
      [] c.op = "AddVersion" -> AddVersion(bd, c.arg)
      [] c.op = "SetPreviousAutomationConfig" -> SetPreviousAutomationConfig(bd, c.arg)

\* the builder after the chain of calls s on bd
RECURSIVE Replay(_, _)
Replay(bd, s) ==
    IF s = <<>> THEN bd ELSE Replay(Apply(bd, OrderCalls[Head(s)]), Tail(s))

ChainCall ==
    \E i \in DOMAIN OrderCalls :
        /\ Len(calls) < MaxChain
        /\ b' = Apply(b, OrderCalls[i])
        /\ calls' = Append(calls, i)
        /\ n' = n + 1
        /\ stage' = "set"
        /\ UNCHANGED out

NextOrder ==
    \/ ChainCall
    \/ BuildCall

SpecOrder == Init /\ [][NextOrder]_vars

(***************************************************************************)
(* Properties.  In a state with Fresh, out is what Build did on the        *)
(* builder b as it stands.                                                 *)
(***************************************************************************)
Built == Fresh /\ out.kind = "ok"

\* the assembled document, carrying the previous Version, differs from the
\* previous document in serialized form
SerializedChange ==
    Marshal([out.doc EXCEPT !.Version = b.previousAC.Version]) # Marshal(b.previousAC)

\* C1 (as amended): when Build succeeds, Version is previous.Version + 1 in
\* Go's wrapping int arithmetic if the assembled document differs from the
\* previous one in serialized form, and previous.Version otherwise; below
\* MaxInt the Version is never lower than the previous one and grows by at
\* most 1, and at MaxInt a differing document wraps it to MinInt.
C1_VersionBump ==
    Built =>
        LET prev == b.previousAC.Version
            new == out.doc.Version
        IN  /\ new = IF SerializedChange THEN IntInc(prev) ELSE prev
            /\ prev < MaxInt => (new >= prev /\ new <= prev + 1)
            /\ (prev = MaxInt /\ SerializedChange) => new = MinInt

\* C1 witness: a Build that found a change against a previous document at
\* Version 5 and returned Version 6
C1_Witness ==
    /\ Built
    /\ SerializedChange
    /\ b.previousAC.Version = 5
    /\ out.doc.Version = 6

\* C1 as stated: the Version is previous.Version + 1 on a change, else
\* previous.Version, never lower than previous.Version and never more than
\* 1 above it
C1_AsStated ==
    Built =>
        LET prev == b.previousAC.Version
            new == out.doc.Version
        IN  /\ IF SerializedChange THEN (prev < MaxInt /\ new = prev + 1) ELSE new = prev
            /\ new >= prev
            /\ (new = prev \/ (prev < MaxInt /\ new = prev + 1))

\* C2: feeding the document Build returned back in as previous, with the
\* other inputs unchanged and a deterministic Enabler, Build succeeds again
\* and returns that same document, Version included
C2_Idempotent ==
    (stage = "chained" /\ Deterministic(b.enabler)) =>
        /\ out.kind = "ok"
        /\ out.doc = b.previousAC

\* C2 witness: a second Build of a feedback chain, over a document with
\* processes whose Version the first Build had bumped
C2_Witness ==
    /\ stage = "chained"
    /\ out.kind = "ok"
    /\ Len(out.doc.Processes.elems) > 0
    /\ out.doc.Version = 1

\* C3: the TLS block of every process and SSL.CAFilePath are populated
\* exactly when CA file and cert+key file are non-empty and the mode is not
\* disabled; otherwise no TLS field is set anywhere
C3_TLSGating ==
    Built =>
        LET enabled == b.tlsCAFile # "" /\ b.tlsCertAndKeyFile # "" /\ b.tlsMode # "disabled"
            ps == out.doc.Processes.elems
        IN  IF enabled
            THEN /\ \A i \in DOMAIN ps :
                        ps[i].Args26.Net.SSL =
                            [Mode |-> b.tlsMode, CAFile |-> b.tlsCAFile,
                             PEMKeyFile |-> b.tlsCertAndKeyFile,
                             AllowConnectionsWithoutCertificate |-> TRUE]
                 /\ out.doc.SSL.CAFilePath = b.tlsCAFile
            ELSE /\ \A i \in DOMAIN ps : ps[i].Args26.Net.SSL = ZeroMongoDBSSL
                 /\ out.doc.SSL.CAFilePath = ""

\* C3 witness: a built document with processes under fully enabled TLS
C3_Witness ==
    /\ Built
    /\ b.tlsCAFile = "/ca.pem" /\ b.tlsCertAndKeyFile = "/server.pem"
    /\ b.tlsMode = "requireSSL"
    /\ Len(out.doc.Processes.elems) > 0
    /\ out.doc.SSL.CAFilePath = "/ca.pem"

\* C4: when the Enabler returns an error, Build returns that very error
\* and the empty AutomationConfig
C4_EnablerFailure ==
    (Fresh /\ out.enable.called /\ out.enable.err # "") =>
        /\ out.kind = "err"
        /\ out.err = out.enable.err
        /\ out.doc = EmptyAC

\* C4 witness: the Enabler failed on a builder with members and with a
\* previous document of non-zero Version
C4_Witness ==
    /\ Fresh
    /\ out.kind = "err"
    /\ out.enable.err = "enable failed"
    /\ b.members > 0
    /\ b.previousAC.Version # 0

\* C5: a successful Build with member count N >= 0 returns N processes and
\* one replica set of N members, the member at position i having id i
C5_Cardinality ==
    (Built /\ b.members >= 0) =>
        /\ ~out.doc.Processes.nil
        /\ Len(out.doc.Processes.elems) = b.members
        /\ Len(out.doc.ReplicaSets.elems) = 1
        /\ LET ms == out.doc.ReplicaSets.elems[1].Members.elems
           IN  /\ Len(ms) = b.members
               /\ \A i \in 1..b.members : ms[i].Id = i - 1

\* C5 witness: a built document for two members
C5_Witness ==
    /\ Built
    /\ b.members = 2
    /\ Len(out.doc.ReplicaSets.elems[1].Members.elems) = 2

\* C6 as stated: whatever the setters were given, Build ends by returning
\* an error or a document, never in a crash
C6_NoCrash == Fresh => out.kind \in {"ok", "err"}

\* C9: process i is named "n-i" with hostname "n-i.d", member i refers to
\* it, and the single replica set has id n and protocol version "1"
C9_Names ==
    Built =>
        LET ps == out.doc.Processes.elems
            rs == out.doc.ReplicaSets.elems[1]
        IN  /\ rs.Id = b.name
            /\ rs.ProtocolVersion = "1"
            /\ \A i \in 1..b.members :
                    /\ ps[i].Name = b.name \o "-" \o ToString(i - 1)
                    /\ ps[i].HostName = b.name \o "-" \o ToString(i - 1) \o "." \o b.domain
                    /\ rs.Members.elems[i].Host = ps[i].Name

\* C9 witness: the second process of deployment foo in example.com
C9_Witness ==
    /\ Built
    /\ b.members = 2
    /\ out.doc.Processes.elems[2].Name = "foo-1"
    /\ out.doc.Processes.elems[2].HostName = "foo-1.example.com"

\* C10: a Build call changes no field of the builder, and on a builder
\* left alone since the last Build, with a deterministic Enabler, it ends
\* as that Build did, with the same Version
C10_BuildFrame ==
    [][stage' \in {"built", "chained", "rebuilt"} =>
          /\ b' = b
          /\ (Fresh /\ Deterministic(b.enabler)) => out' = out]_vars

\* C10 witness: a second Build in a row; the first had bumped the Version
\* to 1 and the second returned 1 again
C10_Witness ==
    /\ stage = "rebuilt"
    /\ out.kind = "ok"
    /\ b.previousAC.Version = 0
    /\ out.doc.Version = 1

(***************************************************************************)
(* Properties of the ordering specification.                               *)
(***************************************************************************)
Reorderings(s) ==
    {[i \in DOMAIN s |-> s[f[i]]] :
        f \in {g \in [DOMAIN s -> DOMAIN s] : \A i, j \in DOMAIN s : g[i] = g[j] => i = j}}

\* s and t make the calls to each single setter in the same order
SameSetterOrder(s, t) ==
    \A k \in DOMAIN OrderCalls :
        LET ToSameSetter(i) == OrderCalls[i].op = OrderCalls[k].op
        IN  SelectSeq(s, ToSameSetter) = SelectSeq(t, ToSameSetter)

\* C7 (as amended): two chains of setter calls that are permutations of one
\* another and make the calls to each single setter (AddVersion included)
\* in the same relative order lead Build to the same outcome
C7_OrderAcrossSetters ==
    Fresh =>
        \A p \in Reorderings(calls) :
            SameSetterOrder(p, calls) => BuildOutcomes(Replay(NewBuilder, p)) = {out}

\* C7 witness: Build after SetName, SetMembers, SetEnabler
C7_Witness ==
    /\ Built
    /\ Len(calls) = 3
    /\ OrderCalls[calls[1]].op = "SetName"
    /\ OrderCalls[calls[2]].op = "SetMembers"
    /\ OrderCalls[calls[3]].op = "SetEnabler"
    /\ Len(out.doc.Processes.elems) = 1

\* C7 as stated: any permutation of the chain leads Build to the same
\* outcome
C7_AnyOrder ==
    Fresh =>
        \A p \in Reorderings(calls) : BuildOutcomes(Replay(NewBuilder, p)) = {out}

\* the catalog entries as they were handed to AddVersion
Added ==
    LET IsAddVersion(i) == OrderCalls[i].op = "AddVersion"
        sel == SelectSeq(calls, IsAddVersion)
    IN  [j \in DOMAIN sel |-> OrderCalls[sel[j]].arg]

\* C8: every build variant of every catalog entry of a built document has
\* a non-nil module list: empty where the entry was added with none, and
\* the list it was added with where that was non-empty
C8_Modules ==
    Built =>
        /\ ~out.doc.Versions.nil
        /\ Len(out.doc.Versions.elems) = Len(Added)
        /\ \A i \in DOMAIN Added :
                LET given == Added[i].Builds.elems
                    got == out.doc.Versions.elems[i].Builds.elems
                IN  /\ Len(got) = Len(given)
                    /\ \A j \in DOMAIN given :
                            /\ ~got[j].Modules.nil
                            /\ given[j].Modules.nil => got[j].Modules.elems = <<>>
                            /\ given[j].Modules.elems # <<>> =>
                                   got[j].Modules = given[j].Modules

\* C8 witness: a built document whose catalog holds the entry added with
\* one module list set and one unset
C8_Witness ==
    /\ Built
    /\ Len(Added) = 2
    /\ Added[2] = EnterpriseVersion
    /\ out.doc.Versions.elems[2].Builds.elems[2].Modules = Slice(<<>>)

====
